---- MODULE Spec2Model ----
(***************************************************************************)
(* resume-matcher: the deterministic score normalizer and the              *)
(* EvaluateCandidatesWorkflow pipeline                                     *)
(* (src/lib/mastra/workflows/evaluateCandidatesWorkflow.ts), the text      *)
(* guard, the structurer's JSON recovery and enum-like fields, the upload  *)
(* route, the parsed-resume store and the score route with its latest-run  *)
(* slot.  Each part has its own specification; the variables of the other  *)
(* parts are idle in it.                                                   *)
(*                                                                         *)
(* Numbers.  Dimension scores are whole points.  A composite score and a   *)
(* threshold are held in tenths of a point (840 is 84.0).  The weighted    *)
(* sum is computed as JavaScript computes it, in IEEE-754 binary64 with    *)
(* round-to-nearest-even after every product and every sum; a binary64     *)
(* value is held as an exact multiple of 2^-55 in four 20-bit limbs,       *)
(* least significant first.                                                *)
(*                                                                         *)
(* Strings.  An id is a sequence of UTF-16 code units (97 is "a").  A text  *)
(* handed to the text guard is held by its lengths: leading whitespace, a  *)
(* body that neither starts nor ends with whitespace, trailing whitespace. *)
(* A string in the structurer's response is held as its lower-case         *)
(* spelling and the casing it arrived in; a literal of the code is such a  *)
(* string in lower case.  A JSON value is a record: [word, casing] a       *)
(* string, [number] a number, [object] an object by its fields, [array] an *)
(* array by its elements, Null, and Undefined for a field that is absent.  *)
(*                                                                         *)
(* Response text.  The text extractJsonObject reads is a sequence of       *)
(* tokens: "{" "}" "," the punctuation of JSON, "m" a member with a scalar *)
(* value ("a":1), "k" a key with its colon, to be followed by a value,     *)
(* "v" a scalar value, " " whitespace, "p" a word of prose, "F" a fence of *)
(* three backticks and "j" the word json.                                  *)
(*                                                                         *)
(* Files.  The disk is the set of files in the resumes directory and its   *)
(* latex directory, each with its path, the request that wrote it and      *)
(* whether it was written whole.  A stored filename is the sanitized name  *)
(* with the Date.now() stamp put before it (0 when there is none).  The    *)
(* weight fields of a score entry are held in hundredths (40 is 0.40).     *)
(***************************************************************************)
EXTENDS Integers, Sequences, FiniteSets, TLC

VARIABLES
  \* the normalizer on its own
  nInput, nThreshold, nOutput, nAgain, nPass,
  \* one run of evaluateCandidates: the parsed input,
  operation, inJobPosting, inJobPostingText, inResumes, inThreshold,
  \* the step the run is in, the context handed from step to step,
  pc, jobPosting, structuring, structuredResumes, scoringResult,
  \* the calls made to the external capabilities and their completions,
  events,
  \* the error of the failed step, and what evaluateCandidates gave its caller
  stepError, outcome,
  \* the text guard: the text, the guard applied to it and what it returned
  gText, gGuard, gResult,
  \* the structurer's parsed response and its normalization
  rRaw, rNormalized,
  \* the structurer's response text (with what it was built from) and what
  \* extractJsonObject made of it
  xCase, xResult,
  \* the upload route: the files on disk, the parsed-resume store, and each
  \* request's position, locals and response
  uDisk, uStore, uReq,
  \* the parsed-resume store on its own: the records upserted so far by the
  \* calls that returned
  sCalls,
  \* the score route: each request's position, body and response, the
  \* latest-run file, and what the last request that answered with success
  \* handed to saveLatestRunState
  qReq, qSlot, qLatest

normVars == <<nInput, nThreshold, nOutput, nAgain, nPass>>
inputVars == <<operation, inJobPosting, inJobPostingText, inResumes, inThreshold>>
runVars == <<pc, jobPosting, structuring, structuredResumes, scoringResult,
             events, stepError, outcome>>
guardVars == <<gText, gGuard, gResult>>
enumVars == <<rRaw, rNormalized>>
recoveryVars == <<xCase, xResult>>
uploadVars == <<uDisk, uStore, uReq>>
storeVars == <<sCalls>>
scoreVars == <<qReq, qSlot, qLatest>>
sideVars == <<guardVars, enumVars, recoveryVars, uploadVars, storeVars,
              scoreVars>>
vars == <<normVars, inputVars, runVars, sideVars>>

(***************************************************************************)
(* Bounds                                                                  *)
(***************************************************************************)
MaxScores == 2
MaxResumes == 2

(***************************************************************************)
(* What the scoring capability can return: any schema-valid ScorerOutput.  *)
(* Ids "a", "B", "ab"; dimension scores inside and outside [0,100];        *)
(* a composite score, flags, best match and threshold of its own making.   *)
(***************************************************************************)
Ids == {<<97>>, <<66>>, <<97, 98>>}

DimensionScores ==
  {<<90, 85, 80, 70>>, <<40, 50, 60, 30>>, <<0, 0, 9, 0>>, <<130, -5, 80, 70>>}

\* the composite score, the flag, the summary and the four weight fields
\* (in hundredths) the capability put on an entry
Supplied ==
  {<<0, TRUE, "strong fit", <<40, 30, 15, 15>>>>,
   <<1000, FALSE, "some gaps", <<25, 25, 25, 25>>>>}

ResumeScores ==
  {[id                       |-> id,
    skillsMatchScore         |-> d[1],
    skillsMatchWeight        |-> c[4][1],
    experienceRelevanceScore |-> d[2],
    experienceRelevanceWeight |-> c[4][2],
    educationMatchScore      |-> d[3],
    educationMatchWeight     |-> c[4][3],
    keywordDensityScore      |-> d[4],
    keywordDensityWeight     |-> c[4][4],
    compositeScore           |-> c[1],
    meetsThreshold           |-> c[2],
    summary                  |-> c[3]] :
     id \in Ids, d \in DimensionScores, c \in Supplied}

RECURSIVE SeqsUpTo(_, _)
SeqsUpTo(S, n) ==
  IF n = 0 THEN {<<>>}
  ELSE LET shorter == SeqsUpTo(S, n - 1)
       IN  shorter \cup {Append(q, x) : q \in {r \in shorter : Len(r) = n - 1}, x \in S}

StaleBest ==
  [id |-> <<66>>, skillsMatchScore |-> 40, experienceRelevanceScore |-> 50,
   educationMatchScore |-> 60, keywordDensityScore |-> 30,
   skillsMatchWeight |-> 40, experienceRelevanceWeight |-> 30,
   educationMatchWeight |-> 15, keywordDensityWeight |-> 15,
   compositeScore |-> 1000, meetsThreshold |-> FALSE, summary |-> "stale"]

ScorerOutputs(items, n) ==
  {[scores |-> q, bestMatch |-> e[1], bestMatchMeetsThreshold |-> e[2], threshold |-> e[3]] :
     q \in SeqsUpTo(items, n),
     e \in {<<StaleBest, FALSE, 999>>, <<StaleBest, TRUE, 0>>}}

\* caller thresholds, in tenths
Thresholds == {0, 445, 700}

(***************************************************************************)
(* IEEE-754 binary64 arithmetic on non-negative multiples of 2^-55         *)
(***************************************************************************)
LimbBase == 2^20

Carry(c) ==
  LET s1 == c[1]
      s2 == c[2] + (s1 \div LimbBase)
      s3 == c[3] + (s2 \div LimbBase)
      s4 == c[4] + (s3 \div LimbBase)
  IN  <<s1 % LimbBase, s2 % LimbBase, s3 % LimbBase, s4>>

BigAdd(a, b) == Carry([i \in 1..4 |-> a[i] + b[i]])

BigScale(a, n) == Carry([i \in 1..4 |-> a[i] * n])

RECURSIVE BitLen(_)
BitLen(x) == IF x = 0 THEN 0 ELSE 1 + BitLen(x \div 2)

BigBitLen(a) ==
  IF a[4] > 0 THEN 60 + BitLen(a[4])
  ELSE IF a[3] > 0 THEN 40 + BitLen(a[3])
  ELSE IF a[2] > 0 THEN 20 + BitLen(a[2])
  ELSE BitLen(a[1])

\* Round an exact value to the nearest binary64 (53 significant bits),
\* ties to even.
RoundToDouble(a) ==
  LET len == BigBitLen(a)
  IN  IF len <= 53 THEN a
      ELSE LET p    == 2^(len - 53)
               rem  == a[1] % p
               odd  == (a[1] \div p) % 2 = 1
               down == [a EXCEPT ![1] = a[1] - rem]
               up   == Carry([a EXCEPT ![1] = a[1] - rem + p])
           IN  IF rem * 2 > p \/ (rem * 2 = p /\ odd) THEN up ELSE down

\* x * n for a whole number n
DoubleTimes(a, n) == RoundToDouble(BigScale(a, n))

\* x + y
DoubleAdd(a, b) == RoundToDouble(BigAdd(a, b))

\* Math.round(x) = floor(x + 1/2), as a whole number
MathRound(a) ==
  LET h == Carry([a EXCEPT ![3] = a[3] + 2^14])
  IN  (h[3] \div 2^15) + h[4] * 2^5

\* The binary64 values of the weight literals 0.4, 0.3, 0.15, 0.15
SCORE_WEIGHTS ==
  [skills     |-> <<209716, 209715, 13107, 0>>,
   experience |-> <<419430, 419430, 9830, 0>>,
   education  |-> <<209715, 209715, 4915, 0>>,
   keywords   |-> <<209715, 209715, 4915, 0>>]

(***************************************************************************)
(* Strings                                                                 *)
(***************************************************************************)
IsUpper(c) == c >= 65 /\ c <= 90

\* The letter of a code unit, case folded
Letter(c) == IF IsUpper(c) THEN c - 65 ELSE c - 97

Min(a, b) == IF a < b THEN a ELSE b

\* -1, 0, 1 by the first position where two key sequences differ; a proper
\* prefix is smaller
CompareKeys(x, y) ==
  LET n    == Min(Len(x), Len(y))
      diff == {i \in 1..n : x[i] # y[i]}
  IN  IF diff # {}
        THEN LET i == CHOOSE k \in diff : \A m \in diff : k <= m
             IN  IF x[i] < y[i] THEN -1 ELSE 1
        ELSE IF Len(x) < Len(y) THEN -1
        ELSE IF Len(x) > Len(y) THEN 1
        ELSE 0

CaseRank(c) == IF IsUpper(c) THEN 1 ELSE 0

\* String.prototype.localeCompare under the default (root / en) collation,
\* for ids of ASCII letters: the letters decide first, case only breaks a
\* tie between equal letter sequences, lower case first.
localeCompare(x, y) ==
  LET letters(q) == [i \in 1..Len(q) |-> Letter(q[i])]
      cases(q)   == [i \in 1..Len(q) |-> CaseRank(q[i])]
      primary    == CompareKeys(letters(x), letters(y))
  IN  IF primary # 0 THEN primary ELSE CompareKeys(cases(x), cases(y))

(***************************************************************************)
(* The normalizer                                                          *)
(***************************************************************************)
clampScore(value) ==
  LET lower == IF value > 0 THEN value ELSE 0
  IN  IF lower < 100 THEN lower ELSE 100

\* Math.round(value * 10) / 10, in tenths
roundTo1(value) == MathRound(DoubleTimes(value, 10))

recomputeCompositeScore(score) ==
  LET skills     == clampScore(score.skillsMatchScore)
      experience == clampScore(score.experienceRelevanceScore)
      education  == clampScore(score.educationMatchScore)
      keywords   == clampScore(score.keywordDensityScore)
  IN  roundTo1(
        DoubleAdd(
          DoubleAdd(
            DoubleAdd(DoubleTimes(SCORE_WEIGHTS.skills, skills),
                      DoubleTimes(SCORE_WEIGHTS.experience, experience)),
            DoubleTimes(SCORE_WEIGHTS.education, education)),
          DoubleTimes(SCORE_WEIGHTS.keywords, keywords)))

\* normalizeScore with the flag taken strictly above the threshold
normalizeScoreStrict(score, threshold) ==
  LET compositeScore == recomputeCompositeScore(score)
  IN  [score EXCEPT !.compositeScore = compositeScore,
                    !.meetsThreshold = compositeScore > threshold]

\* normalizeScore with the flag taken from the incoming compositeScore
normalizeScoreStale(score, threshold) ==
  LET compositeScore == recomputeCompositeScore(score)
  IN  [score EXCEPT !.compositeScore = compositeScore,
                    !.meetsThreshold = score.compositeScore >= threshold]

\* the callback of result.scores.map
normalizeScore(score, threshold) ==
  LET compositeScore == recomputeCompositeScore(score)
  IN  [score EXCEPT !.compositeScore = compositeScore,
                    !.meetsThreshold = compositeScore >= threshold]

\* compareScores without the id tie-break
compareScoresByScoreOnly(a, b) == b.compositeScore - a.compositeScore

\* the comparator of .sort
compareScores(a, b) ==
  LET byScore == b.compositeScore - a.compositeScore
  IN  IF byScore # 0 THEN byScore ELSE localeCompare(a.id, b.id)

\* Array.prototype.sort is stable: an element goes after every element that
\* does not compare greater than it.
RECURSIVE insertSorted(_, _)
insertSorted(sorted, x) ==
  IF sorted = <<>> THEN <<x>>
  ELSE IF compareScores(Head(sorted), x) <= 0
         THEN <<Head(sorted)>> \o insertSorted(Tail(sorted), x)
         ELSE <<x>> \o sorted

RECURSIVE sortScores(_)
sortScores(scores) ==
  IF scores = <<>> THEN <<>>
  ELSE insertSorted(sortScores(SubSeq(scores, 1, Len(scores) - 1)),
                    scores[Len(scores)])

ErrNoScoreItems == "Scoring agent returned no score items."

Thrown(message) == [thrown |-> message]

IsThrown(r) == "thrown" \in DOMAIN r

\* normalizeScoringResult that keeps the capability's bestMatch fields
normalizeScoringResultKeepBest(result, threshold) ==
  LET normalizedScores ==
        sortScores([i \in 1..Len(result.scores) |->
                      normalizeScore(result.scores[i], threshold)])
  IN  IF Len(normalizedScores) = 0
        THEN Thrown(ErrNoScoreItems)
        ELSE [result EXCEPT !.scores = normalizedScores,
                            !.threshold = threshold]

normalizeScoringResult(result, threshold) ==
  LET normalizedScores ==
        sortScores([i \in 1..Len(result.scores) |->
                      normalizeScore(result.scores[i], threshold)])
  IN  IF Len(normalizedScores) = 0
        THEN Thrown(ErrNoScoreItems)
        ELSE [result EXCEPT !.scores = normalizedScores,
                            !.bestMatch = normalizedScores[1],
                            !.bestMatchMeetsThreshold = normalizedScores[1].meetsThreshold,
                            !.threshold = threshold]

(***************************************************************************)
(* The workflow: parse-job-step, parse-resumes-step, score-resumes-step,   *)
(* deterministic-normalize-step, run in that order by the workflow engine; *)
(* a step that throws ends the run with status "failed".                   *)
(***************************************************************************)
Null == [null |-> TRUE]

NotRun == [notRun |-> TRUE]

Operations == {"parseJob", "parseResumes", "score", "evaluate"}

SuppliedJobPosting == [jobTitle |-> "supplied"]

ExtractedJobPosting == [jobTitle |-> "extracted"]

JobPostingText == [text |-> "job posting text"]

ResumeInputs ==
  {[id |-> <<97>>, text |-> "resume text a"],
   [id |-> <<66>>, text |-> "resume text B"]}

\* what the structuring capability makes of a resume text
StructuredResume(text) == [structuredFrom |-> text]

\* what the scoring capability can return inside a run
RunResumeScores ==
  {e \in ResumeScores :
     /\ <<e.skillsMatchScore, e.experienceRelevanceScore,
          e.educationMatchScore, e.keywordDensityScore>> = <<90, 85, 80, 70>>
     /\ e.id \in {<<97>>, <<97, 98>>}}

NoError == "no error"

ErrJobRequired == "A job posting is required for score/evaluate operations."

ErrResumeRequired ==
  "At least one resume is required for parseResumes/score/evaluate operations."

ErrParsedJobRequired == "A parsed job posting is required before scoring."

ErrJobExtraction == "parseJobPosting rejected"

ErrStructuring == "parseResumeToStructured rejected"

ErrScoring == "scoreResumes rejected"

ErrWorkflowFailed == "EvaluateCandidatesWorkflow failed with status: failed"

requiresJob(op) == op = "score" \/ op = "evaluate"

requiresResumes(op) == op = "score" \/ op = "evaluate" \/ op = "parseResumes"

\* needsExtraction that ignores a supplied job posting
needsExtractionOfAnyText(posting, text) == text # Null

\* !jobPosting && inputData.jobPostingText
needsExtraction(posting, text) == posting = Null /\ text # Null

shouldParseResumes(op) == op = "parseResumes" \/ op = "evaluate"

\* scoring for every operation but parseJob
shouldScoreUnlessParseJob(op) == op # "parseJob"

shouldScore(op) == op = "score" \/ op = "evaluate"

\* normalizedOrNull that hands an empty result through as it came
normalizedOrNullOrEmpty(result, threshold) ==
  IF result # Null /\ Len(result.scores) > 0
    THEN normalizeScoringResult(result, threshold)
    ELSE result

\* inputData.scoringResult ? normalizeScoringResult(...) : null
normalizedOrNull(result, threshold) ==
  IF result # Null THEN normalizeScoringResult(result, threshold) ELSE Null

NormIdle ==
  /\ nInput = NotRun
  /\ nThreshold = 0
  /\ nOutput = NotRun
  /\ nAgain = NotRun
  /\ nPass = 0

RunIdle ==
  /\ operation = "parseJob"
  /\ inJobPosting = Null
  /\ inJobPostingText = Null
  /\ inResumes = <<>>
  /\ inThreshold = 0
  /\ pc = "idle"
  /\ jobPosting = Null
  /\ structuring = <<>>
  /\ structuredResumes = <<>>
  /\ scoringResult = Null
  /\ events = <<>>
  /\ stepError = NoError
  /\ outcome = NotRun

GuardIdle ==
  /\ gText = NotRun
  /\ gGuard = "none"
  /\ gResult = NotRun

EnumIdle ==
  /\ rRaw = NotRun
  /\ rNormalized = NotRun

RecoveryIdle ==
  /\ xCase = NotRun
  /\ xResult = NotRun

UploadIdle ==
  /\ uDisk = {}
  /\ uStore = NotRun
  /\ uReq = <<>>

StoreIdle == sCalls = <<>>

ScoreIdle ==
  /\ qReq = <<>>
  /\ qSlot = NotRun
  /\ qLatest = NotRun

\* evaluateCandidates(input), after EvaluateCandidatesWorkflowInputSchema.parse
Init ==
  /\ NormIdle
  /\ GuardIdle
  /\ EnumIdle
  /\ RecoveryIdle
  /\ UploadIdle
  /\ operation \in Operations
  /\ inJobPosting \in {Null, SuppliedJobPosting}
  /\ inJobPostingText \in {Null, JobPostingText}
  /\ inResumes \in SeqsUpTo(ResumeInputs, MaxResumes)
  /\ inThreshold \in {445, 700}
  /\ pc = "parse-job-step"
  /\ jobPosting = Null
  /\ structuring = <<>>
  /\ structuredResumes = <<>>
  /\ scoringResult = Null
  /\ events = <<>>
  /\ stepError = NoError
  /\ outcome = NotRun
  /\ StoreIdle
  /\ ScoreIdle

\* a step throws: the run is failed and no later step executes
Fail(message) ==
  /\ pc' = "failed"
  /\ stepError' = message

\* the rest of parse-job-step once the job posting is settled
ParseJobChecks(posting) ==
  IF requiresJob(operation) /\ posting = Null
    THEN Fail(ErrJobRequired) /\ UNCHANGED jobPosting
  ELSE IF requiresResumes(operation) /\ Len(inResumes) = 0
    THEN Fail(ErrResumeRequired) /\ UNCHANGED jobPosting
  ELSE /\ jobPosting' = posting
       /\ pc' = "parse-resumes-step"
       /\ UNCHANGED stepError

\* parse-job-step up to its await (or to its end when nothing is awaited)
ParseJobStep ==
  /\ pc = "parse-job-step"
  /\ IF needsExtraction(inJobPosting, inJobPostingText)
       THEN /\ events' = Append(events, <<"parseJobPosting">>)
            /\ pc' = "await-parseJobPosting"
            /\ UNCHANGED <<jobPosting, stepError>>
       ELSE /\ ParseJobChecks(inJobPosting)
            /\ UNCHANGED events
  /\ UNCHANGED <<sideVars, normVars, inputVars, structuring, structuredResumes,
                 scoringResult, outcome>>

\* the job-extraction capability answers
ParseJobPostingFulfils ==
  /\ pc = "await-parseJobPosting"
  /\ events' = Append(events, <<"parseJobPosting fulfilled">>)
  /\ ParseJobChecks(ExtractedJobPosting)
  /\ UNCHANGED <<sideVars, normVars, inputVars, structuring, structuredResumes,
                 scoringResult, outcome>>

\* the job-extraction capability fails
ParseJobPostingRejects ==
  /\ pc = "await-parseJobPosting"
  /\ events' = Append(events, <<"parseJobPosting rejected">>)
  /\ Fail(ErrJobExtraction)
  /\ UNCHANGED <<sideVars, normVars, inputVars, jobPosting, structuring,
                 structuredResumes, scoringResult, outcome>>

RECURSIVE StartAll(_, _)
StartAll(log, n) ==
  IF n = 0 THEN log
  ELSE Append(StartAll(log, n - 1), <<"parseResumeToStructured", n>>)

\* parse-resumes-step that starts the calls and does not await them
ParseResumesStepNoAwait ==
  /\ pc = "parse-resumes-step"
  /\ IF shouldParseResumes(operation) /\ Len(inResumes) > 0
       THEN /\ structuring' = [k \in 1..Len(inResumes) |-> [state |-> "pending"]]
            /\ events' = StartAll(events, Len(inResumes))
       ELSE UNCHANGED <<structuring, events>>
  /\ structuredResumes' = <<>>
  /\ pc' = "score-resumes-step"
  /\ UNCHANGED <<sideVars, normVars, inputVars, jobPosting, scoringResult,
                 stepError, outcome>>

\* parse-resumes-step: every structuring call is started, in input order,
\* before the step awaits Promise.all
ParseResumesStep ==
  /\ pc = "parse-resumes-step"
  /\ IF shouldParseResumes(operation) /\ Len(inResumes) > 0
       THEN /\ structuring' = [k \in 1..Len(inResumes) |-> [state |-> "pending"]]
            /\ events' = StartAll(events, Len(inResumes))
            /\ pc' = "await-Promise.all"
            /\ UNCHANGED structuredResumes
       ELSE /\ structuredResumes' = <<>>
            /\ pc' = "score-resumes-step"
            /\ UNCHANGED <<structuring, events>>
  /\ UNCHANGED <<sideVars, normVars, inputVars, jobPosting, scoringResult,
                 stepError, outcome>>

AllFulfilled(calls) == \A k \in 1..Len(calls) : calls[k].state = "fulfilled"

\* the values in the reverse of the input order
PromiseAllReversed(calls) ==
  [i \in 1..Len(calls) |-> calls[Len(calls) + 1 - i].value]

\* the value Promise.all fulfils with: the calls' values by position
PromiseAll(calls) == [i \in 1..Len(calls) |-> calls[i].value]

\* one structuring call answers, in any order; Promise.all fulfils with the
\* values by position once the last one has
StructuringFulfils(k) ==
  /\ k \in 1..Len(structuring)
  /\ structuring[k].state = "pending"
  /\ structuring' = [structuring EXCEPT
                       ![k] = [state |-> "fulfilled",
                               value |-> [id |-> inResumes[k].id,
                                          structuredResume |->
                                            StructuredResume(inResumes[k].text)]]]
  /\ events' = Append(events, <<"parseResumeToStructured fulfilled", k>>)
  /\ IF pc = "await-Promise.all" /\ AllFulfilled(structuring')
       THEN /\ structuredResumes' = PromiseAll(structuring')
            /\ pc' = "score-resumes-step"
       ELSE UNCHANGED <<structuredResumes, pc>>
  /\ UNCHANGED <<sideVars, normVars, inputVars, jobPosting, scoringResult,
                 stepError, outcome>>

\* one structuring call fails and the step carries on to scoring
StructuringRejectsSwallowed(k) ==
  /\ k \in 1..Len(structuring)
  /\ structuring[k].state = "pending"
  /\ structuring' = [structuring EXCEPT ![k] = [state |-> "rejected"]]
  /\ events' = Append(events, <<"parseResumeToStructured rejected", k>>)
  /\ IF pc = "await-Promise.all"
       THEN pc' = "score-resumes-step" /\ UNCHANGED stepError
       ELSE UNCHANGED <<pc, stepError>>
  /\ UNCHANGED <<sideVars, normVars, inputVars, jobPosting, structuredResumes,
                 scoringResult, outcome>>

\* one structuring call fails: Promise.all rejects on the first failure,
\* the other calls run on unobserved
StructuringRejects(k) ==
  /\ k \in 1..Len(structuring)
  /\ structuring[k].state = "pending"
  /\ structuring' = [structuring EXCEPT ![k] = [state |-> "rejected"]]
  /\ events' = Append(events, <<"parseResumeToStructured rejected", k>>)
  /\ IF pc = "await-Promise.all"
       THEN Fail(ErrStructuring)
       ELSE UNCHANGED <<pc, stepError>>
  /\ UNCHANGED <<sideVars, normVars, inputVars, jobPosting, structuredResumes,
                 scoringResult, outcome>>

\* score-resumes-step up to its await
ScoreResumesStep ==
  /\ pc = "score-resumes-step"
  /\ IF ~shouldScore(operation)
       THEN /\ scoringResult' = Null
            /\ pc' = "deterministic-normalize-step"
            /\ UNCHANGED <<events, stepError>>
     ELSE IF jobPosting = Null
       THEN /\ Fail(ErrParsedJobRequired)
            /\ UNCHANGED <<events, scoringResult>>
     ELSE /\ events' = Append(events, <<"scoreResumes">>)
          /\ pc' = "await-scoreResumes"
          /\ UNCHANGED <<scoringResult, stepError>>
  /\ UNCHANGED <<sideVars, normVars, inputVars, jobPosting, structuring,
                 structuredResumes, outcome>>

\* the scoring capability answers with a schema-valid ScorerOutput
ScoreResumesFulfils ==
  /\ pc = "await-scoreResumes"
  /\ \E result \in ScorerOutputs(RunResumeScores, MaxScores) :
       scoringResult' = result
  /\ events' = Append(events, <<"scoreResumes fulfilled">>)
  /\ pc' = "deterministic-normalize-step"
  /\ UNCHANGED <<sideVars, normVars, inputVars, jobPosting, structuring,
                 structuredResumes, stepError, outcome>>

\* the scoring capability fails
ScoreResumesRejects ==
  /\ pc = "await-scoreResumes"
  /\ events' = Append(events, <<"scoreResumes rejected">>)
  /\ Fail(ErrScoring)
  /\ UNCHANGED <<sideVars, normVars, inputVars, jobPosting, structuring,
                 structuredResumes, scoringResult, outcome>>

\* deterministic-normalize-step
NormalizeScoringStep ==
  /\ pc = "deterministic-normalize-step"
  /\ LET normalized == normalizedOrNull(scoringResult, inThreshold)
     IN  IF IsThrown(normalized)
           THEN /\ Fail(normalized.thrown)
                /\ UNCHANGED scoringResult
           ELSE /\ scoringResult' = normalized
                /\ pc' = "success"
                /\ UNCHANGED stepError
  /\ UNCHANGED <<sideVars, normVars, inputVars, jobPosting, structuring,
                 structuredResumes, events, outcome>>

\* evaluateCandidates returning the context of a run whatever its status
EvaluateCandidatesSettlesAnyStatus ==
  /\ pc \in {"success", "failed"}
  /\ outcome = NotRun
  /\ outcome' = [returned |-> [jobPosting        |-> jobPosting,
                               structuredResumes |-> structuredResumes,
                               scoringResult     |-> scoringResult]]
  /\ UNCHANGED <<sideVars, normVars, inputVars, pc, jobPosting, structuring,
                 structuredResumes, scoringResult, events, stepError>>

\* evaluateCandidates after run.start: the result of a successful run is
\* returned, any other status is thrown as one error
EvaluateCandidatesSettles ==
  /\ pc \in {"success", "failed"}
  /\ outcome = NotRun
  /\ outcome' = IF pc = "success"
                  THEN [returned |-> [jobPosting        |-> jobPosting,
                                      structuredResumes |-> structuredResumes,
                                      scoringResult     |-> scoringResult]]
                  ELSE Thrown(ErrWorkflowFailed)
  /\ UNCHANGED <<sideVars, normVars, inputVars, pc, jobPosting, structuring,
                 structuredResumes, scoringResult, events, stepError>>

Next ==
  \/ ParseJobStep
  \/ ParseJobPostingFulfils
  \/ ParseJobPostingRejects
  \/ ParseResumesStep
  \/ \E k \in 1..MaxResumes : StructuringFulfils(k)
  \/ \E k \in 1..MaxResumes : StructuringRejects(k)
  \/ ScoreResumesStep
  \/ ScoreResumesFulfils
  \/ ScoreResumesRejects
  \/ NormalizeScoringStep
  \/ EvaluateCandidatesSettles

Spec == Init /\ [][Next]_vars

(***************************************************************************)
(* The normalizer applied to every capability output, once and then again  *)
(* to its own result.                                                      *)
(***************************************************************************)
NormInit ==
  /\ nInput \in ScorerOutputs(ResumeScores, MaxScores)
  /\ nThreshold \in Thresholds
  /\ nOutput = NotRun
  /\ nAgain = NotRun
  /\ nPass = 0
  /\ RunIdle
  /\ GuardIdle
  /\ EnumIdle
  /\ RecoveryIdle
  /\ UploadIdle
  /\ StoreIdle
  /\ ScoreIdle

\* normalizeScoringResult(result, threshold)
Normalize ==
  /\ nPass = 0
  /\ nOutput' = normalizeScoringResult(nInput, nThreshold)
  /\ nPass' = 1
  /\ UNCHANGED <<nInput, nThreshold, nAgain, inputVars, runVars, sideVars>>

\* normalizeScoringResult(normalizeScoringResult(result, threshold), threshold)
NormalizeAgain ==
  /\ nPass = 1
  /\ ~IsThrown(nOutput)
  /\ nAgain' = normalizeScoringResult(nOutput, nThreshold)
  /\ nPass' = 2
  /\ UNCHANGED <<nInput, nThreshold, nOutput, inputVars, runVars, sideVars>>

NormNext == Normalize \/ NormalizeAgain

SpecNorm == NormInit /\ [][NormNext]_vars

(***************************************************************************)
(* Properties of the normalizer                                            *)
(***************************************************************************)
Normalized == nPass >= 1 /\ ~IsThrown(nOutput)

Positions(q) == 1..Len(q)

\* round-half-up to one decimal of the weighted sum of the clamped
\* dimensions, in exact arithmetic (the sum is taken in hundredths)
ExactComposite(e) ==
  LET in(v) == IF v < 0 THEN 0 ELSE IF v > 100 THEN 100 ELSE v
      sum   == 40 * in(e.skillsMatchScore) + 30 * in(e.experienceRelevanceScore)
               + 15 * in(e.educationMatchScore) + 15 * in(e.keywordDensityScore)
  IN  (sum + 5) \div 10

\* C1: every normalized entry's compositeScore is round1 of
\* 0.40*skills + 0.30*experience + 0.15*education + 0.15*keywords over the
\* clamped dimensions, whatever compositeScore the capability supplied.
C1_CompositeIsRoundedWeightedSum ==
  Normalized =>
    \A i \in Positions(nOutput.scores) :
      nOutput.scores[i].compositeScore = ExactComposite(nOutput.scores[i])

\* x <= y in code-unit lexicographic order
LexLeq(x, y) == CompareKeys(x, y) <= 0

C3_BestMatchIsFirst ==
  Normalized =>
    /\ nOutput.bestMatch = nOutput.scores[1]
    /\ nOutput.bestMatchMeetsThreshold = nOutput.scores[1].meetsThreshold

\* the capability's bestMatch and flag were both replaced
C3_Witness ==
  /\ Normalized
  /\ nInput.bestMatch # nOutput.bestMatch
  /\ nInput.bestMatchMeetsThreshold # nOutput.bestMatchMeetsThreshold

\* C5: every entry's meetsThreshold is compositeScore >= the caller's
\* threshold and the output carries the caller's threshold.
C5_ThresholdReapplied ==
  Normalized =>
    /\ nOutput.threshold = nThreshold
    /\ \A i \in Positions(nOutput.scores) :
         nOutput.scores[i].meetsThreshold
           = (nOutput.scores[i].compositeScore >= nThreshold)

\* an entry exactly on the caller's threshold, flagged false by the
\* capability, which also echoed another threshold
C5_Witness ==
  /\ Normalized
  /\ nInput.threshold # nThreshold
  /\ \A j \in Positions(nInput.scores) : ~nInput.scores[j].meetsThreshold
  /\ \E i \in Positions(nOutput.scores) :
       /\ nOutput.scores[i].compositeScore = nThreshold
       /\ nOutput.scores[i].meetsThreshold

\* C6: normalizing a normalized output again changes nothing.
C6_Idempotent == nPass = 2 => nAgain = nOutput

\* a second pass over an output whose first pass reordered the entries and
\* replaced composite scores, flags and best match
C6_Witness ==
  /\ nPass = 2
  /\ Len(nAgain.scores) >= 2
  /\ nInput.scores[1].id = nOutput.scores[2].id
  /\ nInput.scores[1].id # nOutput.scores[1].id
  /\ nInput.bestMatch # nOutput.bestMatch

Reorderings(q) ==
  {[i \in Positions(q) |-> q[p[i]]] :
     p \in {f \in [Positions(q) -> Positions(q)] :
              \A a, b \in Positions(q) : f[a] = f[b] => a = b}}

\* C7: every permutation of the capability's scores list normalizes to the
\* same sequence of entries and the same bestMatch.
C7_OrderIndependent ==
  Normalized =>
    \A q \in Reorderings(nInput.scores) :
      LET other == normalizeScoringResult([nInput EXCEPT !.scores = q], nThreshold)
      IN  other.scores = nOutput.scores /\ other.bestMatch = nOutput.bestMatch

(***************************************************************************)
(* Properties of the workflow                                              *)
(***************************************************************************)
Settled == outcome # NotRun

Returned == Settled /\ ~IsThrown(outcome)

Calls(name) == {i \in 1..Len(events) : events[i][1] = name}

\* C4: a schema-valid scoring result with an empty scores list makes
\* normalization throw and the run fail; a returned scoringResult always has
\* entries and its bestMatch is the first of them.
C4_EmptyScoresFailTheRun ==
  /\ (Settled /\ scoringResult # Null /\ Len(scoringResult.scores) = 0)
       => (IsThrown(outcome) /\ stepError = ErrNoScoreItems)
  /\ (Returned /\ outcome.returned.scoringResult # Null)
       => /\ Len(outcome.returned.scoringResult.scores) > 0
          /\ outcome.returned.scoringResult.bestMatch
               = outcome.returned.scoringResult.scores[1]

\* the capability was called, answered with no scores, and the run failed
C4_Witness ==
  /\ Settled
  /\ Calls("scoreResumes fulfilled") # {}
  /\ Len(scoringResult.scores) = 0
  /\ IsThrown(outcome)

\* C8: score with neither jobPosting nor jobPostingText fails with the
\* missing-job-posting error; parseResumes, score or evaluate with an empty
\* resume list (and, where a job posting is required, one supplied in some
\* form) fails with the missing-resumes error; no record is returned.
C8_PreconditionErrors ==
  Settled =>
    /\ (operation = "score" /\ inJobPosting = Null /\ inJobPostingText = Null)
         => (IsThrown(outcome) /\ stepError = ErrJobRequired)
    /\ (/\ requiresResumes(operation)
        /\ Len(inResumes) = 0
        /\ ~(requiresJob(operation) /\ inJobPosting = Null /\ inJobPostingText = Null))
         => (IsThrown(outcome) /\ stepError = ErrResumeRequired)

\* C9: a parseResumes run never invokes job extraction or scoring.
C9_ParseResumesOnlyStructures ==
  operation = "parseResumes" =>
    Calls("parseJobPosting") = {} /\ Calls("scoreResumes") = {}

\* C10: a parseJob run never invokes structuring or scoring, invokes job
\* extraction at most once, and with a supplied jobPosting not at all,
\* returning the supplied jobPosting.
C10_ParseJobOnlyExtracts ==
  operation = "parseJob" =>
    /\ Calls("parseResumeToStructured") = {}
    /\ Calls("scoreResumes") = {}
    /\ Cardinality(Calls("parseJobPosting")) <= 1
    /\ inJobPosting # Null =>
         /\ Calls("parseJobPosting") = {}
         /\ Settled => (Returned /\ outcome.returned.jobPosting = inJobPosting)

\* a parseJob run given a jobPosting, a jobPostingText and resumes has
\* returned
C10_Witness ==
  /\ operation = "parseJob"
  /\ inJobPosting # Null
  /\ inJobPostingText # Null
  /\ Len(inResumes) > 0
  /\ Returned

\* the calls made to the external capabilities (their starts)
Starts ==
  {i \in 1..Len(events) :
     events[i][1] \in {"parseJobPosting", "parseResumeToStructured", "scoreResumes"}}

\* C11: in an evaluate run job extraction, when it runs, has completed
\* before any structuring call starts; every structuring call has completed
\* before the scoring call starts; scoring is called at most once; and the
\* run succeeds (normalization done) only after the scoring call completed.
C11_FixedStageOrder ==
  operation = "evaluate" =>
    /\ \A p \in Calls("parseResumeToStructured") :
         /\ Calls("parseJobPosting") # {}
              => \E f \in Calls("parseJobPosting fulfilled") : f < p
         /\ inJobPosting = Null => Calls("parseJobPosting") # {}
    /\ \A s \in Calls("scoreResumes") :
         \A k \in 1..Len(inResumes) :
           \E f \in Calls("parseResumeToStructured fulfilled") :
             events[f][2] = k /\ f < s
    /\ Cardinality(Calls("scoreResumes")) <= 1
    /\ pc = "success" =>
         \E f \in Calls("scoreResumes fulfilled") :
           \A s \in Calls("scoreResumes") : s < f

\* an evaluate run that extracted the job posting and structured two
\* resumes, the second answering first, has succeeded
C11_Witness ==
  /\ operation = "evaluate"
  /\ pc = "success"
  /\ Calls("parseJobPosting fulfilled") # {}
  /\ Len(inResumes) = 2
  /\ \E f1, f2 \in Calls("parseResumeToStructured fulfilled") :
       events[f1][2] = 1 /\ events[f2][2] = 2 /\ f2 < f1

\* C12: in a returned record scoringResult is null for parseJob and
\* parseResumes and non-null for score and evaluate, structuredResumes is
\* empty for parseJob and score, and jobPosting is null when none was
\* supplied and none extracted.
C12_ReturnedRecordShape ==
  Returned =>
    /\ operation \in {"parseJob", "parseResumes"}
         => outcome.returned.scoringResult = Null
    /\ operation \in {"score", "evaluate"}
         => outcome.returned.scoringResult # Null
    /\ operation \in {"parseJob", "score"}
         => outcome.returned.structuredResumes = <<>>
    /\ (inJobPosting = Null /\ Calls("parseJobPosting fulfilled") = {})
         => outcome.returned.jobPosting = Null

\* a parseResumes run given resumes and no job posting in any form has
\* returned
C12_Witness ==
  /\ operation = "parseResumes"
  /\ inJobPosting = Null
  /\ inJobPostingText = Null
  /\ Returned
  /\ Len(outcome.returned.structuredResumes) = 2

\* C13: the structuredResumes returned by parseResumes or evaluate has the
\* length of the input list and its k-th element carries the id and the
\* structuring result of the k-th input resume, whatever the order in which
\* the calls completed.
C13_ResultsInInputOrder ==
  (Returned /\ operation \in {"parseResumes", "evaluate"}) =>
    /\ Len(outcome.returned.structuredResumes) = Len(inResumes)
    /\ \A k \in 1..Len(inResumes) :
         /\ outcome.returned.structuredResumes[k].id = inResumes[k].id
         /\ outcome.returned.structuredResumes[k].structuredResume
              = StructuredResume(inResumes[k].text)

\* two different resumes were structured, the second answering first, and
\* the record was returned
C13_Witness ==
  /\ Returned
  /\ operation \in {"parseResumes", "evaluate"}
  /\ Len(inResumes) = 2
  /\ inResumes[1] # inResumes[2]
  /\ \E f1, f2 \in Calls("parseResumeToStructured fulfilled") :
       events[f1][2] = 1 /\ events[f2][2] = 2 /\ f2 < f1

\* C14: once a structuring call has failed the run is failed with the one
\* structuring error, scoring is never invoked, no structuredResumes list
\* exists, and evaluateCandidates does not return.
C14_StructuringFailureFailsAll ==
  (\E k \in 1..Len(structuring) : structuring[k].state = "rejected") =>
    /\ pc = "failed"
    /\ stepError = ErrStructuring
    /\ Calls("scoreResumes") = {}
    /\ structuredResumes = <<>>
    /\ Settled => outcome = Thrown(ErrWorkflowFailed)

\* one call failed, its sibling answered afterwards, and the caller got the
\* error
C14_Witness ==
  /\ IsThrown(outcome)
  /\ \E r \in Calls("parseResumeToStructured rejected") :
       \E f \in Calls("parseResumeToStructured fulfilled") : r < f

\* C15: a failed run stays failed, starts no further capability call and
\* changes no context; evaluateCandidates then raises, so nothing of the
\* failed run (extracted jobPosting, structured resumes) is returned.
C15_FailureAbortsTheRun ==
  /\ [](pc = "failed" => (Settled => outcome = Thrown(ErrWorkflowFailed)))
  /\ [][pc = "failed" =>
          /\ pc' = "failed"
          /\ Starts' = Starts
          /\ <<jobPosting, structuredResumes, scoringResult>>'
               = <<jobPosting, structuredResumes, scoringResult>>]_vars

\* an evaluate run extracted the posting, structured its resumes, failed in
\* scoring, and the caller got the error
C15_Witness ==
  /\ operation = "evaluate"
  /\ Calls("parseJobPosting fulfilled") # {}
  /\ Len(structuredResumes) = 2
  /\ Calls("scoreResumes rejected") # {}
  /\ IsThrown(outcome)

\* C16: when a precondition check fails, the error evaluateCandidates
\* raises is the error of that check.
C16_PreconditionErrorReported ==
  (Settled /\ stepError \in {ErrJobRequired, ErrResumeRequired})
    => outcome = Thrown(stepError)

(***************************************************************************)
(* The text guard (src/lib/validation/inputGuards.ts)                      *)
(***************************************************************************)
GuardWindow == 2
MaxPadding == 1

CHARS_PER_TOKEN_ESTIMATE == 4

INPUT_LIMITS ==
  [jobText    |-> [minChars |-> 50, maxChars |-> 30000,
                   maxEstimatedTokens |-> 7500],
   resumeText |-> [minChars |-> 100, maxChars |-> 40000,
                   maxEstimatedTokens |-> 10000]]

\* text.length
length(text) == text.lead + text.body + text.trail

\* text.trim()
trim(text) == [lead |-> 0, body |-> text.body, trail |-> 0]

\* the estimate rounded down and raised by one
estimateTokensFloorPlusOne(text) ==
  length(text) \div CHARS_PER_TOKEN_ESTIMATE + 1

\* Math.ceil(text.length / CHARS_PER_TOKEN_ESTIMATE)
estimateTokens(text) ==
  IF length(text) % CHARS_PER_TOKEN_ESTIMATE = 0
    THEN length(text) \div CHARS_PER_TOKEN_ESTIMATE
    ELSE length(text) \div CHARS_PER_TOKEN_ESTIMATE + 1

\* the guard counting the characters of the text as given
validateTextLengthAndTokensUntrimmed(text, opts) ==
  IF length(text) < opts.minChars
    THEN [error |-> "is too short", chars |-> length(text)]
  ELSE IF length(text) > opts.maxChars
    THEN [error |-> "is too long (chars)", chars |-> length(text)]
  ELSE IF estimateTokens(text) > opts.maxEstimatedTokens
    THEN [error |-> "is too long (estimated tokens)",
          chars |-> estimateTokens(text)]
  ELSE Null

\* the error message is held as its wording and the count it quotes
validateTextLengthAndTokens(text, opts) ==
  LET trimmed == trim(text)
      charCount == length(trimmed)
      estimatedTokens == estimateTokens(trimmed)
  IN  IF charCount < opts.minChars
        THEN [error |-> "is too short", chars |-> charCount]
      ELSE IF charCount > opts.maxChars
        THEN [error |-> "is too long (chars)", chars |-> charCount]
      ELSE IF estimatedTokens > opts.maxEstimatedTokens
        THEN [error |-> "is too long (estimated tokens)",
              chars |-> estimatedTokens]
      ELSE Null

validateJobPostingText(jobPostingText) ==
  validateTextLengthAndTokens(jobPostingText, INPUT_LIMITS.jobText)

validateResumeText(resumeText) ==
  validateTextLengthAndTokens(resumeText, INPUT_LIMITS.resumeText)

\* body lengths around every limit of the guard, and around the empty text
BodyLengths ==
  {n \in UNION {(b - GuardWindow)..(b + GuardWindow) :
                  b \in {0, 50, 100, 30000, 40000}} : n >= 0}

Texts ==
  {t \in [lead : 0..MaxPadding, body : BodyLengths, trail : 0..MaxPadding] :
     t.body = 0 => t.trail = 0}

GuardInit ==
  /\ gText \in Texts
  /\ gGuard = "none"
  /\ gResult = NotRun
  /\ NormIdle
  /\ RunIdle
  /\ EnumIdle
  /\ RecoveryIdle
  /\ UploadIdle
  /\ StoreIdle
  /\ ScoreIdle

ValidateJobPostingText ==
  /\ gGuard = "none"
  /\ gGuard' = "jobText"
  /\ gResult' = validateJobPostingText(gText)
  /\ UNCHANGED <<gText, storeVars, scoreVars, normVars, inputVars, runVars, enumVars, recoveryVars,
               uploadVars>>

ValidateResumeText ==
  /\ gGuard = "none"
  /\ gGuard' = "resumeText"
  /\ gResult' = validateResumeText(gText)
  /\ UNCHANGED <<gText, storeVars, scoreVars, normVars, inputVars, runVars, enumVars, recoveryVars,
               uploadVars>>

GuardNext == ValidateJobPostingText \/ ValidateResumeText

SpecGuard == GuardInit /\ [][GuardNext]_vars

(***************************************************************************)
(* Properties of the text guard                                            *)
(***************************************************************************)
\* the limits the guard is to enforce: minimum and maximum characters,
\* maximum estimated tokens
StatedLimits ==
  IF gGuard = "jobText" THEN <<50, 30000, 7500>> ELSE <<100, 40000, 10000>>

Violates(count) ==
  \/ count < StatedLimits[1]
  \/ count > StatedLimits[2]
  \/ (count + 3) \div 4 > StatedLimits[3]

\* C17 as stated: the guard returns an error exactly when the character
\* count of the text is below the minimum, above the maximum, or its
\* estimated tokens ceil(count / 4) are above the maximum, else null.
C17_GuardOnCharacterCount ==
  gGuard # "none" =>
    ((gResult # Null) <=> Violates(gText.lead + gText.body + gText.trail))

\* C17 amended: the same, the count being that of the text after leading
\* and trailing whitespace is removed.
C17_GuardOnTrimmedCount ==
  gGuard # "none" => ((gResult # Null) <=> Violates(gText.body))

\* a resume text of 100 characters with whitespace at an end was rejected
\* as too short
C17_Witness ==
  /\ gGuard = "resumeText"
  /\ gText.lead + gText.body + gText.trail = 100
  /\ gText.body < 100
  /\ gResult # Null

\* C28: with the limits 30000 / 7500 and 40000 / 10000 the outcome "too
\* many estimated tokens" is never returned; the result is the one the two
\* character-count checks alone give.
C28_TokenCheckNeverDecides ==
  gGuard # "none" =>
    /\ gResult # Null => gResult.error # "is too long (estimated tokens)"
    /\ gResult =
         IF gText.body < StatedLimits[1]
           THEN [error |-> "is too short", chars |-> gText.body]
         ELSE IF gText.body > StatedLimits[2]
           THEN [error |-> "is too long (chars)", chars |-> gText.body]
         ELSE Null

\* a job text of exactly 30000 characters, whose estimate is exactly 7500
\* tokens, was accepted
C28_Witness ==
  /\ gGuard = "jobText"
  /\ gText.body = 30000
  /\ estimateTokens(trim(gText)) = 7500
  /\ gResult = Null

(***************************************************************************)
(* The enum-like fields in normalizeStructuredResume                       *)
(* (src/lib/mastra/agents/resumeStructurerAgent.ts)                        *)
(***************************************************************************)
Undefined == [undefined |-> TRUE]

Lit(word) == [word |-> word, casing |-> "lower"]

IsString(value) == "word" \in DOMAIN value

toLowerCase(string) == [word |-> string.word, casing |-> "lower"]

\* value && typeof value === "object"
IsObjectValue(value) == "object" \in DOMAIN value \/ "array" \in DOMAIN value

\* value[key] of a value that is neither null nor undefined
Get(value, key) ==
  IF "object" \in DOMAIN value /\ key \in DOMAIN value.object
    THEN value.object[key]
    ELSE Undefined

SkillCategories ==
  {Lit(w) : w \in {"technical", "soft", "domain", "tool", "language",
                   "certification"}}

SkillProficiencies ==
  {Lit(w) : w \in {"foundational", "working", "advanced", "expert",
                   "unspecified"}}

ExperienceLevels ==
  {Lit(w) : w \in {"entry", "mid", "senior", "lead", "executive",
                   "unspecified"}}

EducationLevels ==
  {Lit(w) : w \in {"high_school", "associates", "bachelors", "masters",
                   "phd", "bootcamp", "certificate", "unspecified"}}

mapSkillCategory(value) ==
  LET raw == IF IsString(value) THEN toLowerCase(value) ELSE Lit("")
  IN  IF raw = Lit("soft") THEN Lit("soft")
      ELSE IF raw = Lit("domain") THEN Lit("domain")
      ELSE IF raw = Lit("tool") THEN Lit("tool")
      ELSE IF raw = Lit("language") THEN Lit("language")
      ELSE IF raw = Lit("certification") THEN Lit("certification")
      ELSE IF raw \in {Lit("framework"), Lit("cloud"), Lit("backend"),
                       Lit("database"), Lit("architecture"), Lit("ai")}
        THEN Lit("technical")
      ELSE Lit("technical")

mapSkillProficiency(value) ==
  LET raw == IF IsString(value) THEN toLowerCase(value) ELSE Lit("")
  IN  IF raw = Lit("foundational") THEN Lit("foundational")
      ELSE IF raw = Lit("working") \/ raw = Lit("intermediate")
        THEN Lit("working")
      ELSE IF raw = Lit("advanced") THEN Lit("advanced")
      ELSE IF raw = Lit("expert") THEN Lit("expert")
      ELSE Lit("unspecified")

\* the mapper comparing the value as it arrived
mapExperienceLevelCaseSensitive(value) ==
  LET raw == IF IsString(value) THEN value ELSE Lit("")
  IN  IF raw \in {Lit("entry"), Lit("mid"), Lit("senior"), Lit("lead"),
                  Lit("executive")}
        THEN raw
        ELSE Lit("unspecified")

mapExperienceLevel(value) ==
  LET raw == IF IsString(value) THEN toLowerCase(value) ELSE Lit("")
  IN  IF raw \in {Lit("entry"), Lit("mid"), Lit("senior"), Lit("lead"),
                  Lit("executive")}
        THEN raw
        ELSE Lit("unspecified")

mapEducationLevel(value) ==
  LET raw == IF IsString(value) THEN toLowerCase(value) ELSE Lit("")
  IN  IF raw \in {Lit("high_school"), Lit("associates"), Lit("bachelors"),
                  Lit("masters"), Lit("phd"), Lit("bootcamp"),
                  Lit("certificate")}
        THEN raw
        ELSE Lit("unspecified")

\* Array.isArray(value) ? value : []
arrayOrEmpty(value) == IF "array" \in DOMAIN value THEN value.array ELSE <<>>

TypeError == "TypeError: Cannot read properties of null"

\* the enum-like fields of the normalized resume; reading a field of an
\* entry that is null or undefined throws
normalizeStructuredResume(raw) ==
  LET source == IF IsObjectValue(raw) THEN raw ELSE [object |-> <<>>]
      skillsInput == SelectSeq(arrayOrEmpty(Get(source, "skills")),
                               IsObjectValue)
      educationInput == SelectSeq(arrayOrEmpty(Get(source, "education")),
                                  IsObjectValue)
  IN  IF \E i \in 1..Len(skillsInput) : skillsInput[i] \in {Null, Undefined}
        THEN Thrown(TypeError)
      ELSE IF \E i \in 1..Len(educationInput) :
                 educationInput[i] \in {Null, Undefined}
        THEN Thrown(TypeError)
      ELSE
        [experienceLevel |-> mapExperienceLevel(Get(source, "experienceLevel")),
         skills |->
           [i \in 1..Len(skillsInput) |->
              [category    |-> mapSkillCategory(Get(skillsInput[i], "category")),
               proficiency |-> mapSkillProficiency(
                                 Get(skillsInput[i], "proficiency"))]],
         education |->
           [i \in 1..Len(educationInput) |->
              [educationLevel |-> mapEducationLevel(
                                    Get(educationInput[i], "educationLevel"))]]]

\* what the capability may put in an enum-like field
EnumWords ==
  {"entry", "mid", "senior", "lead", "executive", "unspecified",
   "technical", "soft", "domain", "tool", "language", "certification",
   "framework", "foundational", "working", "intermediate", "advanced",
   "expert", "high_school", "associates", "bachelors", "masters", "phd",
   "bootcamp", "certificate", "none_required", "wizard"}

RawEnumValues ==
  {Undefined, Null, [number |-> 7], Lit("")}
    \cup {[word |-> w, casing |-> c] :
            w \in EnumWords, c \in {"lower", "upper", "title"}}

\* the lists of a response: well-formed, with entries that are no objects,
\* no array at all, absent
RawLists(entry) ==
  {[array |-> <<entry>>],
   [array |-> <<Null, entry, [number |-> 7]>>],
   Lit("none"),
   Undefined}

\* a response is no object at all, or an object carrying one raw value in
\* each of its enum-like fields
RawResumes ==
  {Null, [number |-> 7], Lit("resume"), [array |-> <<>>], [object |-> <<>>]}
    \cup UNION {
           {[object |-> [experienceLevel |-> v, skills |-> sk,
                         education |-> ed]] :
              sk \in RawLists([object |-> [category |-> v,
                                           proficiency |-> v]]),
              ed \in RawLists([object |-> [educationLevel |-> v]])} :
           v \in RawEnumValues}

EnumInit ==
  /\ rRaw \in RawResumes
  /\ rNormalized = NotRun
  /\ NormIdle
  /\ RunIdle
  /\ GuardIdle
  /\ RecoveryIdle
  /\ UploadIdle
  /\ StoreIdle
  /\ ScoreIdle

NormalizeStructuredResume ==
  /\ rNormalized = NotRun
  /\ rNormalized' = normalizeStructuredResume(rRaw)
  /\ UNCHANGED <<rRaw, storeVars, scoreVars, normVars, inputVars, runVars, guardVars, recoveryVars,
                 uploadVars>>

SpecEnum == EnumInit /\ [][NormalizeStructuredResume]_vars

(***************************************************************************)
(* Properties of the enum-like fields                                      *)
(***************************************************************************)
\* the value a raw enum value is to become: its lower-case spelling when
\* that is one of the recognized spellings, the fallback otherwise
Mapped(value, recognized, fallback) ==
  IF IsString(value) /\ toLowerCase(value) \in recognized
    THEN toLowerCase(value)
    ELSE fallback

RawEntries(key) == SelectSeq(arrayOrEmpty(Get(rRaw, key)), IsObjectValue)

\* C19: normalizeStructuredResume does not raise; experienceLevel, every
\* educationLevel and every proficiency is in its allowed set, a recognized
\* spelling in any casing mapped to itself ("intermediate" to "working") and
\* anything else to "unspecified"; every category is in its allowed set,
\* with "technical" for anything unrecognized.
C19_EnumFieldsDefaulted ==
  rNormalized # NotRun =>
    /\ ~IsThrown(rNormalized)
    /\ rNormalized.experienceLevel \in ExperienceLevels
    /\ rNormalized.experienceLevel
         = Mapped(Get(rRaw, "experienceLevel"), ExperienceLevels,
                  Lit("unspecified"))
    /\ Len(rNormalized.skills) = Len(RawEntries("skills"))
    /\ \A i \in 1..Len(rNormalized.skills) :
         LET category == Get(RawEntries("skills")[i], "category")
             proficiency == Get(RawEntries("skills")[i], "proficiency")
         IN  /\ rNormalized.skills[i].category \in SkillCategories
             /\ rNormalized.skills[i].category
                  = Mapped(category, SkillCategories, Lit("technical"))
             /\ rNormalized.skills[i].proficiency \in SkillProficiencies
             /\ rNormalized.skills[i].proficiency
                  = IF Mapped(proficiency, {Lit("intermediate")}, Null) # Null
                      THEN Lit("working")
                      ELSE Mapped(proficiency, SkillProficiencies,
                                  Lit("unspecified"))
    /\ Len(rNormalized.education) = Len(RawEntries("education"))
    /\ \A i \in 1..Len(rNormalized.education) :
         /\ rNormalized.education[i].educationLevel \in EducationLevels
         /\ rNormalized.education[i].educationLevel
              = Mapped(Get(RawEntries("education")[i], "educationLevel"),
                       EducationLevels, Lit("unspecified"))

\* a response with "SENIOR" as experienceLevel, a null among its skills and
\* an unknown educationLevel was normalized
C19_Witness ==
  /\ rNormalized # NotRun
  /\ Get(rRaw, "experienceLevel") = [word |-> "senior", casing |-> "upper"]
  /\ rNormalized.experienceLevel = Lit("senior")
  /\ Len(arrayOrEmpty(Get(rRaw, "skills"))) = 3
  /\ Len(rNormalized.skills) = 1
  /\ Len(rNormalized.education) = 1
  /\ rNormalized.education[1].educationLevel = Lit("unspecified")

(***************************************************************************)
(* The JSON recovery of the structurer's response                          *)
(* (extractJsonObject, src/lib/mastra/agents/resumeStructurerAgent.ts)     *)
(***************************************************************************)
MaxTextLen == 4

\* text.trim()
RECURSIVE trimText(_)
trimText(text) ==
  IF text # <<>> /\ Head(text) = " " THEN trimText(Tail(text))
  ELSE IF text # <<>> /\ text[Len(text)] = " "
    THEN trimText(SubSeq(text, 1, Len(text) - 1))
  ELSE text

\* the JSON grammar over tokens without whitespace: a value is a scalar or
\* an object, an object is braces around members separated by commas, a
\* member is "m" or "k" followed by a value
RECURSIVE IsValue(_), IsMembers(_)
IsValue(t) ==
  \/ t = <<"v">>
  \/ /\ Len(t) >= 2
     /\ t[1] = "{"
     /\ t[Len(t)] = "}"
     /\ Len(t) = 2 \/ IsMembers(SubSeq(t, 2, Len(t) - 1))

IsMembers(t) ==
  LET IsMember(u) ==
        u = <<"m">> \/ (Len(u) >= 2 /\ u[1] = "k" /\ IsValue(Tail(u)))
  IN  \/ IsMember(t)
      \/ \E i \in 2..(Len(t) - 1) :
           /\ t[i] = ","
           /\ IsMember(SubSeq(t, 1, i - 1))
           /\ IsMembers(SubSeq(t, i + 1, Len(t)))

SyntaxError == "SyntaxError: Unexpected token in JSON"

\* JSON.parse(text): whitespace between tokens does not count; the value
\* parsed is held as its tokens
JSONparse(text) ==
  LET tokens == SelectSeq(text, LAMBDA c : c # " ")
  IN  IF IsValue(tokens) THEN [value |-> tokens] ELSE Thrown(SyntaxError)

\* trimmed.match(/```(?:json)?\s*([\s\S]*?)\s*```/i)?.[1]?.trim() ?? trimmed:
\* the text between the first fence (and a json tag next to it) and the
\* fence after it, or the whole text when there are no two fences
fencedOrWhole(trimmed) ==
  LET fences == {i \in 1..Len(trimmed) : trimmed[i] = "F"}
      open == CHOOSE i \in fences : \A o \in fences : i <= o
      start == IF trimmed[open + 1] = "j" THEN open + 2 ELSE open + 1
      close == CHOOSE i \in fences :
                 i >= start /\ \A o \in fences : o >= start => i <= o
  IN  IF Cardinality(fences) < 2 THEN trimmed
      ELSE trimText(SubSeq(trimmed, start, close - 1))

ErrEmptyOutput == "Resume structurer returned empty output."

ErrNoValidJson == "Resume structurer did not return valid JSON."

extractJsonObject(text) ==
  LET trimmed == trimText(text)
      candidate == fencedOrWhole(trimmed)
      opening == {i \in 1..Len(candidate) : candidate[i] = "{"}
      closing == {i \in 1..Len(candidate) : candidate[i] = "}"}
      firstBrace == CHOOSE i \in opening : \A o \in opening : i <= o
      lastBrace == CHOOSE i \in closing : \A o \in closing : i >= o
  IN  IF trimmed = <<>> THEN Thrown(ErrEmptyOutput)
      ELSE IF ~IsThrown(JSONparse(trimmed)) THEN JSONparse(trimmed)
      ELSE IF opening # {} /\ closing # {} /\ lastBrace > firstBrace
        THEN JSONparse(SubSeq(candidate, firstBrace, lastBrace))
      ELSE Thrown(ErrNoValidJson)

\* JSON objects the capability may answer with
JsonObjects ==
  {<<"{", "}">>,
   <<"{", " ", "m", " ", "}">>,
   <<"{", "m", ",", "k", "{", "m", "}", "}">>}

\* prose around the JSON: plain words, words with braces in them, words
\* with a fenced snippet
Prose == {<<"p">>, <<"p", "{", "p", "}">>, <<"F", "p", "F">>}

\* the responses built from a JSON object: (a) the object itself, (b) the
\* object in a fenced block tagged json or with another word, (c) the
\* object between prose
RecoveryCases ==
  {[shape |-> "plain", json |-> o, text |-> pad \o o \o pad] :
     o \in JsonObjects, pad \in {<<>>, <<" ">>}}
  \cup
  {[shape |-> "fenced", json |-> o,
    text |-> <<"F", tag>> \o pad \o o \o pad \o <<"F">>] :
     o \in JsonObjects, tag \in {"j", "p"}, pad \in {<<>>, <<" ">>}}
  \cup
  {[shape |-> "prose", json |-> o,
    text |-> before \o <<" ">> \o o \o <<" ">> \o after] :
     o \in JsonObjects, before \in Prose, after \in Prose}

\* any other text the capability may answer with
FreeAlphabet == {"{", "}", "m", "v", " ", "p", "F"}

RecoveryInit ==
  /\ \/ xCase \in RecoveryCases
     \/ \E n \in 0..MaxTextLen :
          \E t \in [1..n -> FreeAlphabet] :
            xCase = [shape |-> "free", json |-> <<>>, text |-> t]
  /\ xResult = NotRun
  /\ NormIdle
  /\ RunIdle
  /\ GuardIdle
  /\ EnumIdle
  /\ UploadIdle
  /\ StoreIdle
  /\ ScoreIdle

ExtractJsonObject ==
  /\ xResult = NotRun
  /\ xResult' = extractJsonObject(xCase.text)
  /\ UNCHANGED <<xCase, storeVars, scoreVars, normVars, inputVars, runVars, guardVars, enumVars,
                 uploadVars>>

SpecRecovery == RecoveryInit /\ [][ExtractJsonObject]_vars

(***************************************************************************)
(* Properties of the JSON recovery                                         *)
(***************************************************************************)
\* the JSON object a response was built from, as a parsed value
Embedded == [value |-> SelectSeq(xCase.json, LAMBDA c : c # " ")]

\* some stretch of the text is a JSON object
HasJsonObject(text) ==
  \E i \in 1..Len(text) : \E j \in i..Len(text) :
    text[i] = "{" /\ ~IsThrown(JSONparse(SubSeq(text, i, j)))

\* C18: the same object is extracted from the plain JSON, from the JSON in
\* a tagged fenced block and from the JSON between prose; a text holding
\* no JSON object raises an error.
C18_RecoversOrRaises ==
  xResult # NotRun =>
    /\ xCase.shape \in {"plain", "fenced", "prose"} => xResult = Embedded
    /\ ~HasJsonObject(xCase.text) => IsThrown(xResult)

\* the three strategies on the trimmed response: the direct parse, the
\* parse of the content of the first fenced block, and the parse of the
\* whole text from its first "{" to its last "}"
DirectParse == JSONparse(trimText(xCase.text))

FencedParse ==
  LET trimmed == trimText(xCase.text)
  IN  IF Cardinality({i \in 1..Len(trimmed) : trimmed[i] = "F"}) < 2
        THEN Thrown(SyntaxError)
      ELSE JSONparse(fencedOrWhole(trimmed))

WholeTextSlice ==
  LET trimmed == trimText(xCase.text)
      opening == {i \in 1..Len(trimmed) : trimmed[i] = "{"}
      closing == {i \in 1..Len(trimmed) : trimmed[i] = "}"}
      firstBrace == CHOOSE i \in opening : \A o \in opening : i <= o
      lastBrace == CHOOSE i \in closing : \A o \in closing : i >= o
  IN  IF opening # {} /\ closing # {} /\ lastBrace > firstBrace
        THEN JSONparse(SubSeq(trimmed, firstBrace, lastBrace))
      ELSE Thrown(SyntaxError)

\* C26: when the direct parse fails and the fenced content does not parse,
\* the object in the whole response text between its first "{" and its
\* last "}" is returned; an error is raised only when the direct parse, the
\* fenced parse and the whole-text brace slice all fail.
C26_FallsBackToWholeTextSlice ==
  xResult # NotRun =>
    /\ (IsThrown(DirectParse) /\ IsThrown(FencedParse) /\ ~IsThrown(WholeTextSlice))
         => xResult = WholeTextSlice
    /\ IsThrown(xResult)
         => (IsThrown(DirectParse) /\ IsThrown(FencedParse) /\ IsThrown(WholeTextSlice))

(***************************************************************************)
(* The upload route (src/app/api/resumes/upload/route.ts) over the         *)
(* parsed-resume store (src/lib/resumes/storage.ts)                        *)
(***************************************************************************)
Uploads == {1, 2}

FileNames == {"cv", "ab"}

\* what extractPdfText gives: no text, too little text, enough text
ExtractedTexts == {[lead |-> 0, body |-> n, trail |-> 0] : n \in {0, 99, 100}}

\* fs.writeFileSync writes the file, or throws leaving nothing of it, or
\* throws with the file created and not written whole
WriteOutcomes == {"written", "failed", "partial"}

pdfPath(filename) == [dir |-> "resumes", file |-> filename]

getLatexPathForResumeId(resumeId) == [dir |-> "resumes/latex", file |-> resumeId]

\* if (filePath && fs.existsSync(filePath)) fs.unlinkSync(filePath)
safeDeleteFile(disk, filePath) == {f \in disk : f.path # filePath}

writeFileSync(disk, path, request, write) ==
  IF write = "failed" THEN disk
  ELSE safeDeleteFile(disk, path)
         \cup {[path |-> path, by |-> request, whole |-> write = "written"]}

\* the resumes of readParsedResumeStore(): a store file that was not
\* written whole does not parse and reads as the empty store; of a file
\* that parses, the items with a string id are kept
readParsedResumeStore(store) ==
  IF store.readable
    THEN SelectSeq(store.resumes, LAMBDA item : "name" \in DOMAIN item.id)
    ELSE <<>>

\* the upsert putting the record in front of all the records read
upsertParsedResumeKeepingOld(store, resume, write) ==
  LET resumes == readParsedResumeStore(store)
      next == <<resume>> \o resumes
  IN  IF write = "written" THEN [readable |-> TRUE, resumes |-> next]
      ELSE IF write = "partial" THEN [readable |-> FALSE, resumes |-> <<>>]
      ELSE store

upsertParsedResume(store, resume, write) ==
  LET resumes == readParsedResumeStore(store)
      next == <<resume>> \o SelectSeq(resumes, LAMBDA item : item.id # resume.id)
  IN  IF write = "written" THEN [readable |-> TRUE, resumes |-> next]
      ELSE IF write = "partial" THEN [readable |-> FALSE, resumes |-> <<>>]
      ELSE store

\* store.resumes.find((item) => item.id === id) ?? null
getParsedResumeById(store, id) ==
  LET resumes == readParsedResumeStore(store)
      found == {i \in 1..Len(resumes) : resumes[i].id = id}
  IN  IF found = {} THEN Null
      ELSE resumes[CHOOSE i \in found : \A o \in found : i <= o]

getParsedResumes(store) == readParsedResumeStore(store)

Responds(request, response, savedPdfPath, savedLatexPath) ==
  uReq' = [uReq EXCEPT ![request] =
             [@ EXCEPT !.pc = "responded", !.response = response,
                       !.savedPdfPath = savedPdfPath,
                       !.savedLatexPath = savedLatexPath]]

\* the catch block, entered with the disk as the try block left it
Catch(request, disk, savedPdfPath, savedLatexPath) ==
  /\ uDisk' = safeDeleteFile(safeDeleteFile(disk, savedLatexPath), savedPdfPath)
  /\ Responds(request, [success |-> FALSE, status |-> 500],
              savedPdfPath, savedLatexPath)

\* upsertParsedResume and the success response
Finish(request, disk, latexPath, write) ==
  LET resume == [id |-> uReq[request].filename, by |-> request,
                 isEditable |-> uReq[request].isEditable,
                 latexPath |-> latexPath]
  IN  /\ uStore' = upsertParsedResume(uStore, resume, write)
      /\ IF write = "written"
           THEN /\ uDisk' = disk
                /\ Responds(request, [success |-> TRUE, status |-> 200],
                            uReq[request].savedPdfPath, latexPath)
           ELSE Catch(request, disk, uReq[request].savedPdfPath, latexPath)

UploadInit ==
  /\ uDisk = {}
  /\ uStore = [readable |-> TRUE, resumes |-> <<>>]
  /\ uReq \in [Uploads ->
                 {[pc |-> "POST", name |-> n, isEditable |-> e,
                   filename |-> Null, savedPdfPath |-> Null,
                   savedLatexPath |-> Null, response |-> NotRun] :
                    n \in FileNames, e \in BOOLEAN}]
  /\ NormIdle
  /\ RunIdle
  /\ GuardIdle
  /\ EnumIdle
  /\ RecoveryIdle
  /\ StoreIdle
  /\ ScoreIdle

\* POST up to await file.arrayBuffer(): the checks of the request, the
\* stored filename chosen, savedPdfPath set
ReceiveUpload(request, check, now) ==
  /\ uReq[request].pc = "POST"
  /\ IF check # "ok"
       THEN Responds(request, [success |-> FALSE, status |-> 400], Null, Null)
       ELSE LET safeName == [stamp |-> 0, name |-> uReq[request].name]
                filename ==
                  IF \E f \in uDisk : f.path = pdfPath(safeName)
                    THEN [stamp |-> now, name |-> uReq[request].name]
                    ELSE safeName
            IN  uReq' = [uReq EXCEPT ![request] =
                           [@ EXCEPT !.pc = "await-arrayBuffer",
                                     !.filename = filename,
                                     !.savedPdfPath = pdfPath(filename)]]
  /\ UNCHANGED <<uDisk, uStore, storeVars, scoreVars, normVars, inputVars, runVars, guardVars,
                 enumVars, recoveryVars>>

\* fs.writeFileSync(dest, buffer), then extractPdfText is called
WritePdf(request, write) ==
  /\ uReq[request].pc = "await-arrayBuffer"
  /\ LET disk == writeFileSync(uDisk, uReq[request].savedPdfPath, request,
                               write)
     IN  IF write = "written"
           THEN /\ uDisk' = disk
                /\ uReq' = [uReq EXCEPT
                              ![request].pc = "await-extractPdfText"]
           ELSE Catch(request, disk, uReq[request].savedPdfPath, Null)
  /\ UNCHANGED <<uStore, storeVars, scoreVars, normVars, inputVars, runVars, guardVars, enumVars,
                 recoveryVars>>

\* the text is extracted: the empty-text check and the text guard, then
\* parseResumeToStructured is called
ExtractPdfTextFulfils(request, text) ==
  /\ uReq[request].pc = "await-extractPdfText"
  /\ IF length(text) = 0 \/ validateResumeText(text) # Null
       THEN /\ uDisk' = safeDeleteFile(uDisk, uReq[request].savedPdfPath)
            /\ Responds(request, [success |-> FALSE, status |-> 400],
                        Null, Null)
       ELSE /\ uReq' = [uReq EXCEPT
                          ![request].pc = "await-parseResumeToStructured"]
            /\ UNCHANGED uDisk
  /\ UNCHANGED <<uStore, storeVars, scoreVars, normVars, inputVars, runVars, guardVars, enumVars,
                 recoveryVars>>

\* extractPdfText, parseResumeToStructured or convertResumeToLatex rejects
AwaitedCallRejects(request) ==
  /\ uReq[request].pc \in {"await-extractPdfText",
                           "await-parseResumeToStructured",
                           "await-convertResumeToLatex"}
  /\ Catch(request, uDisk, uReq[request].savedPdfPath, Null)
  /\ UNCHANGED <<uStore, storeVars, scoreVars, normVars, inputVars, runVars, guardVars, enumVars,
                 recoveryVars>>

\* the resume is structured: convertResumeToLatex is called for an editable
\* upload, the record is upserted for any other
ParseResumeToStructuredFulfils(request, write) ==
  /\ uReq[request].pc = "await-parseResumeToStructured"
  /\ IF uReq[request].isEditable
       THEN /\ uReq' = [uReq EXCEPT
                          ![request].pc = "await-convertResumeToLatex"]
            /\ UNCHANGED <<uDisk, uStore>>
       ELSE Finish(request, uDisk, Null, write)
  /\ UNCHANGED <<storeVars, scoreVars, normVars, inputVars, runVars, guardVars, enumVars,
                 recoveryVars>>

\* the LaTeX arrives: writeResumeLatex, savedLatexPath set once it has
\* returned, then the record is upserted
ConvertResumeToLatexFulfils(request, latexWrite, write) ==
  /\ uReq[request].pc = "await-convertResumeToLatex"
  /\ LET latexPath == getLatexPathForResumeId(uReq[request].filename)
         disk == writeFileSync(uDisk, latexPath, request, latexWrite)
     IN  IF latexWrite = "written"
           THEN Finish(request, disk, latexPath, write)
           ELSE /\ Catch(request, disk, uReq[request].savedPdfPath, Null)
                /\ UNCHANGED uStore
  /\ UNCHANGED <<storeVars, scoreVars, normVars, inputVars, runVars, guardVars, enumVars,
                 recoveryVars>>

UploadNext ==
  \E request \in Uploads :
    \/ \E check \in {"no api key", "no file", "not a pdf", "over 5 MB", "ok"} :
         \E now \in {1, 2} : ReceiveUpload(request, check, now)
    \/ \E write \in WriteOutcomes : WritePdf(request, write)
    \/ \E text \in ExtractedTexts : ExtractPdfTextFulfils(request, text)
    \/ AwaitedCallRejects(request)
    \/ \E write \in WriteOutcomes :
         ParseResumeToStructuredFulfils(request, write)
    \/ \E latexWrite \in WriteOutcomes, write \in WriteOutcomes :
         ConvertResumeToLatexFulfils(request, latexWrite, write)

SpecUpload == UploadInit /\ [][UploadNext]_vars

(***************************************************************************)
(* Properties of the upload route                                          *)
(***************************************************************************)
\* C20: once a request has answered with a failure, no file it wrote is on
\* disk (no PDF, no LaTeX file) and the store holds no record of it; every
\* record in the store is of a request that answered with success.
C20_FailedUploadLeavesNothing ==
  \A request \in Uploads :
    /\ (uReq[request].response # NotRun /\ ~uReq[request].response.success)
         => /\ \A f \in uDisk : f.by # request
            /\ \A i \in 1..Len(uStore.resumes) : uStore.resumes[i].by # request
    /\ \A i \in 1..Len(uStore.resumes) :
         uStore.resumes[i].by = request
           => (uReq[request].response # NotRun /\ uReq[request].response.success)

Succeeded(request) ==
  uReq[request].response # NotRun /\ uReq[request].response.success

\* the step is the one in which the request answers with a failure
FailsNow(request) ==
  /\ uReq[request].response = NotRun
  /\ uReq'[request].response # NotRun
  /\ ~uReq'[request].response.success

\* C30: under concurrent uploads of one sanitized filename, the failure
\* clean-up of a request never deletes the PDF stored by another request;
\* every store record of an upload that returned success still has its PDF
\* on disk; two successful uploads never share a stored filename.
C30_ConcurrentUploadsKeepApart ==
  /\ [](/\ \A i \in 1..Len(uStore.resumes) :
             Succeeded(uStore.resumes[i].by)
               => \E f \in uDisk : f.path = pdfPath(uStore.resumes[i].id)
        /\ \A one \in Uploads, other \in Uploads :
             (one # other /\ Succeeded(one) /\ Succeeded(other))
               => uReq[one].filename # uReq[other].filename)
  /\ [][\A one \in Uploads, other \in Uploads :
          (one # other /\ FailsNow(other))
            => \A f \in uDisk :
                 (f.by = one /\ f.path.dir = "resumes") => f \in uDisk']_vars

(***************************************************************************)
(* Further properties of the normalizer's output                           *)
(***************************************************************************)
\* C22: in the ScorerOutput that normalization produces, each of the four
\* dimension scores of every entry lies in [0, 100], also when the
\* capability returned values outside that range.
C22_DimensionScoresInRange ==
  Normalized =>
    \A i \in Positions(nOutput.scores) :
      /\ nOutput.scores[i].skillsMatchScore \in 0..100
      /\ nOutput.scores[i].experienceRelevanceScore \in 0..100
      /\ nOutput.scores[i].educationMatchScore \in 0..100
      /\ nOutput.scores[i].keywordDensityScore \in 0..100

\* C23: in every ResumeScore a score/evaluate run returns, the four weight
\* fields are the constants 0.40, 0.30, 0.15 and 0.15, whatever the
\* capability returned.
C23_WeightFieldsAreConstants ==
  (Returned /\ outcome.returned.scoringResult # Null) =>
    \A i \in Positions(outcome.returned.scoringResult.scores) :
      LET score == outcome.returned.scoringResult.scores[i]
      IN  /\ score.skillsMatchWeight = 40
          /\ score.experienceRelevanceWeight = 30
          /\ score.educationMatchWeight = 15
          /\ score.keywordDensityWeight = 15

\* C24: a successful score/evaluate run returns exactly one ResumeScore
\* per input resume: the ids in scoringResult.scores are the ids of the
\* input resumes, each as often as it was given, whatever ids the
\* capability returned.
C24_OneScorePerInputResume ==
  (Returned /\ outcome.returned.scoringResult # Null) =>
    LET scores == outcome.returned.scoringResult.scores
    IN  \A id \in Ids :
          Cardinality({i \in Positions(scores) : scores[i].id = id})
            = Cardinality({k \in Positions(inResumes) : inResumes[k].id = id})

\* C25: the preconditions are validated before any stage does work: in a
\* run that has failed with the missing-job-posting or the missing-resumes
\* error no external capability has been invoked, also in an evaluate or
\* score run given jobPostingText and zero resumes.
C25_PreconditionsBeforeAnyCapability ==
  stepError \in {ErrJobRequired, ErrResumeRequired} => events = <<>>

(***************************************************************************)
(* The parsed-resume store (src/lib/resumes/storage.ts) under a sequence   *)
(* of upserts.  The calls of the sequence are calls that return: each      *)
(* writes the store file whole.  (A write that throws is part of the       *)
(* upload route above.)                                                    *)
(***************************************************************************)
MaxUpserts == 3

\* the records upserted: two ids, each in versions told apart by the
\* request that made them and the editable flag
ParsedResumes ==
  {[id |-> [stamp |-> 0, name |-> n], by |-> r, isEditable |-> e,
    latexPath |-> Null] : n \in FileNames, r \in Uploads, e \in BOOLEAN}

\* no parsed-resumes.json yet: it reads as the empty store
StoreInit ==
  /\ uDisk = {}
  /\ uStore = [readable |-> TRUE, resumes |-> <<>>]
  /\ uReq = <<>>
  /\ sCalls = <<>>
  /\ NormIdle
  /\ RunIdle
  /\ GuardIdle
  /\ EnumIdle
  /\ RecoveryIdle
  /\ ScoreIdle

\* upsertParsedResume(resume)
UpsertParsedResume(resume) ==
  /\ Len(sCalls) < MaxUpserts
  /\ uStore' = upsertParsedResume(uStore, resume, "written")
  /\ sCalls' = Append(sCalls, resume)
  /\ UNCHANGED <<uDisk, uReq, scoreVars, normVars, inputVars, runVars,
                 guardVars, enumVars, recoveryVars>>

StoreNext == \E resume \in ParsedResumes : UpsertParsedResume(resume)

SpecStore == StoreInit /\ [][StoreNext]_vars

\* the record of the most recent upsert with the id, null if there is none
LastUpsert(id) ==
  LET upserts == {i \in 1..Len(sCalls) : sCalls[i].id = id}
  IN  IF upserts = {} THEN Null
      ELSE sCalls[CHOOSE i \in upserts : \A o \in upserts : i >= o]

ScoreRequests == {1, 2}

NotJson == [notJson |-> TRUE]

\* an object that is not a JobPosting
InvalidJobPosting == [title |-> "no JobPosting"]

\* the ids sent: of a parsed resume in the store, of a PDF on disk with no
\* record, of no file
ScoreIds ==
  [stored  |-> [stamp |-> 0, name |-> "cv"],
   onDisk  |-> [stamp |-> 0, name |-> "ab"],
   missing |-> [stamp |-> 1, name |-> "cv"]]

\* the texts sent: one the guard accepts, one it finds too short
ScoreTexts ==
  [good  |-> [lead |-> 0, body |-> 100, trail |-> 0],
   short |-> [lead |-> 0, body |-> 99, trail |-> 0]]

\* the resumes[] a body may carry: none, one good entry, one whose text is
\* too short, missing or a number, one whose id is missing or a number
ScoreResumes ==
  {<<>>} \cup
  {<<[id |-> id, text |-> text]>> :
     id \in {ScoreIds.stored},
     text \in {ScoreTexts.good, ScoreTexts.short, Undefined, [number |-> 7]}}
  \cup
  {<<[id |-> id, text |-> ScoreTexts.good]>> :
     id \in {Undefined, [number |-> 7]}}

\* the bodies sent: the good body { jobPosting, resumes: [good entry] } and
\* the bodies that differ from it in the job posting, in the resumes given
\* (by resumeIds, by resumes or not at all), in the threshold, or in two of
\* these
ScoreBodies ==
  {NotJson} \cup
  {body \in
     [jobPosting : {Undefined, InvalidJobPosting, SuppliedJobPosting},
      resumeIds : {Undefined} \cup
                  {[array |-> a] :
                     a \in {<<>>, <<ScoreIds.stored>>, <<ScoreIds.onDisk>>,
                            <<ScoreIds.missing>>}},
      resumes : {Undefined} \cup {[array |-> a] : a \in ScoreResumes},
      threshold : {Undefined, [number |-> 700], [number |-> 1500], Lit("high")}] :
     /\ body.resumeIds # Undefined => body.resumes = Undefined
     /\ \/ body.jobPosting = SuppliedJobPosting
        \/ body.resumes =
             [array |-> <<[id |-> ScoreIds.stored, text |-> ScoreTexts.good]>>]
        \/ body.threshold = Undefined}

\* what the scoring capability returns inside the run of a score request
RouteResumeScores == {e \in RunResumeScores : e.compositeScore = 0}

\* typeof value
typeof(value) ==
  IF DOMAIN value \cap {"body", "name", "word"} # {} THEN "string"
  ELSE IF "number" \in DOMAIN value THEN "number"
  ELSE IF value = Undefined THEN "undefined"
  ELSE "object"

Status(status) == [success |-> FALSE, status |-> status]

\* resumeIds.map(...): the stored text of a parsed resume, else the text
\* extracted from the PDF on disk, else the throw of a missing file
LoadResume(id, extracted) ==
  IF typeof(id) # "string" THEN Thrown(TypeError)
  ELSE IF getParsedResumeById(uStore, id) # Null
    THEN [id |-> id, text |-> ScoreTexts.good]
  ELSE IF ~\E f \in uDisk : f.path = pdfPath(id)
    THEN Thrown("Resume not found on server")
  ELSE IF IsThrown(extracted) THEN extracted
  ELSE [id |-> id, text |-> extracted]

\* the loop over the resumes: the first entry whose text is no string
\* throws inside validateResumeText (text.trim), the first whose text fails
\* the guard is answered 400
ResumeTextChecks(resumes) ==
  LET bad == {i \in 1..Len(resumes) :
                \/ typeof(resumes[i].text) # "string"
                \/ validateResumeText(resumes[i].text) # Null}
      first == CHOOSE i \in bad : \A o \in bad : i <= o
  IN  IF bad = {} THEN Null
      ELSE IF typeof(resumes[first].text) # "string" THEN Status(500)
      ELSE Status(400)

\* ScorerInputSchema.safeParse({ jobPosting, resumes, threshold }).success
ScorerInputSchema(input) ==
  /\ input.jobPosting = SuppliedJobPosting
  /\ \A i \in 1..Len(input.resumes) :
       /\ typeof(input.resumes[i].id) = "string"
       /\ typeof(input.resumes[i].text) = "string"
  /\ typeof(input.threshold) = "number"

\* EvaluateCandidatesWorkflowInputSchema.parse(input) does not throw
EvaluateCandidatesWorkflowInputSchema(input) ==
  input.threshold.number >= 0 /\ input.threshold.number <= 1000

\* POST up to the start of the run: the response of a request that is
\* answered before it, or the input of the run
ScoreChecks(body, extracted) ==
  IF body = NotJson THEN Status(500)
  ELSE
    LET threshold ==
          IF body.threshold = Undefined THEN [number |-> 700] ELSE body.threshold
        loaded == [i \in 1..Len(body.resumeIds.array) |->
                     LoadResume(body.resumeIds.array[i], extracted)]
        resumes ==
          IF body.resumeIds # Undefined THEN loaded ELSE body.resumes.array
        input == [jobPosting |-> body.jobPosting, resumes |-> resumes,
                  threshold |-> threshold]
    IN  IF body.jobPosting = Undefined THEN Status(400)
        ELSE IF body.resumeIds # Undefined /\ Len(body.resumeIds.array) = 0
          THEN Status(400)
        ELSE IF body.resumeIds # Undefined
                  /\ \E i \in 1..Len(loaded) : IsThrown(loaded[i])
          THEN Status(500)
        ELSE IF body.resumeIds = Undefined /\ body.resumes = Undefined
          THEN Status(400)
        ELSE IF ResumeTextChecks(resumes) # Null THEN ResumeTextChecks(resumes)
        ELSE IF ~ScorerInputSchema(input) THEN Status(400)
        ELSE IF ~EvaluateCandidatesWorkflowInputSchema(input) THEN Status(500)
        ELSE [run |-> input]

RUN_STATE_VERSION == 1

\* the content saveLatestRunState(input) writes to the latest-run file
saveLatestRunState(input) ==
  [version |-> RUN_STATE_VERSION, jobPosting |-> input.jobPosting,
   scoringResults |-> input.scoringResults]

\* getLatestRunState() of the latest-run file (Null when there is none)
getLatestRunState(slot) ==
  IF slot = Null THEN Null
  ELSE IF slot.jobPosting = Null \/ slot.scoringResults = Null THEN Null
  ELSE slot

\* a parsed resume "cv" with its PDF, and a PDF "ab" with no record
ScoreInit ==
  /\ uStore = [readable |-> TRUE,
               resumes |-> <<[id |-> ScoreIds.stored, by |-> 1,
                              isEditable |-> FALSE, latexPath |-> Null]>>]
  /\ uDisk = {[path |-> pdfPath(id), by |-> 1, whole |-> TRUE] :
                id \in {ScoreIds.stored, ScoreIds.onDisk}}
  /\ uReq = <<>>
  /\ qReq = [request \in ScoreRequests |->
               [pc |-> "POST", body |-> Null, input |-> Null,
                invoked |-> FALSE, response |-> NotRun]]
  /\ qSlot = Null
  /\ qLatest = Null
  /\ NormIdle
  /\ RunIdle
  /\ GuardIdle
  /\ EnumIdle
  /\ RecoveryIdle
  /\ StoreIdle

\* POST up to await evaluateCandidates(...)
ReceiveScore(request, body, extracted) ==
  /\ qReq[request].pc = "POST"
  /\ LET checked == ScoreChecks(body, extracted)
     IN  qReq' = [qReq EXCEPT ![request] =
                    IF "run" \in DOMAIN checked
                      THEN [@ EXCEPT !.pc = "await-evaluateCandidates",
                                     !.body = body, !.input = checked.run,
                                     !.invoked = TRUE]
                      ELSE [@ EXCEPT !.pc = "responded", !.body = body,
                                     !.response = checked]]
  /\ UNCHANGED <<qSlot, qLatest, uploadVars, storeVars, normVars, inputVars,
                 runVars, guardVars, enumVars, recoveryVars>>

\* the run fails (a precondition, a capability or the normalization): the
\* catch block answers 500 and deletes the latest-run file
ScoreRunRejectsClearingSlot(request) ==
  /\ qReq[request].pc = "await-evaluateCandidates"
  /\ qReq' = [qReq EXCEPT ![request] =
                [@ EXCEPT !.pc = "responded", !.response = Status(500)]]
  /\ qSlot' = Null
  /\ UNCHANGED <<qLatest, uploadVars, storeVars, normVars, inputVars,
                 runVars, guardVars, enumVars, recoveryVars>>

\* the run fails (a precondition, a capability or the normalization): the
\* catch block answers 500
ScoreRunRejects(request) ==
  /\ qReq[request].pc = "await-evaluateCandidates"
  /\ qReq' = [qReq EXCEPT ![request] =
                [@ EXCEPT !.pc = "responded", !.response = Status(500)]]
  /\ UNCHANGED <<qSlot, qLatest, uploadVars, storeVars, normVars, inputVars,
                 runVars, guardVars, enumVars, recoveryVars>>

\* the run succeeds on what the scoring capability returned: the result is
\* saved and answered
ScoreRunFulfils(request, result) ==
  /\ qReq[request].pc = "await-evaluateCandidates"
  /\ Len(qReq[request].input.resumes) > 0
  /\ LET input == qReq[request].input
         normalized == normalizeScoringResult(result, input.threshold.number)
         saved == [jobPosting |-> input.jobPosting,
                   scoringResults |-> normalized]
     IN  /\ ~IsThrown(normalized)
         /\ qSlot' = saveLatestRunState(saved)
         /\ qLatest' = [by |-> request,
                        saves |-> IF qLatest = Null THEN 1 ELSE qLatest.saves + 1,
                        jobPosting |-> saved.jobPosting,
                        scoringResults |-> saved.scoringResults]
         /\ qReq' = [qReq EXCEPT ![request] =
                       [@ EXCEPT !.pc = "responded",
                                 !.response = [success |-> TRUE, status |-> 200,
                                               data |-> normalized]]]
  /\ UNCHANGED <<uploadVars, storeVars, normVars, inputVars, runVars,
                 guardVars, enumVars, recoveryVars>>

ScoreNext ==
  \E request \in ScoreRequests :
    \/ \E body \in ScoreBodies :
         \E extracted \in ExtractedTexts \cup {Thrown("pdf-parse failed")} :
           ReceiveScore(request, body, extracted)
    \/ ScoreRunRejects(request)
    \/ \E result \in ScorerOutputs(RouteResumeScores, MaxScores) :
         ScoreRunFulfils(request, result)

SpecScore == ScoreInit /\ [][ScoreNext]_vars

(***************************************************************************)
(* Properties of the score route                                           *)
(***************************************************************************)
Answered(request) == qReq[request].response # NotRun

\* the body is malformed: jobPosting absent or no JobPosting, a resumes
\* entry whose id or text is missing or no string, a threshold that is no
\* number or outside [0, 100], or neither resumeIds nor resumes
Malformed(body) ==
  /\ body # NotJson
  /\ \/ body.jobPosting # SuppliedJobPosting
     \/ /\ body.resumes # Undefined
        /\ \E i \in 1..Len(body.resumes.array) :
             \/ typeof(body.resumes.array[i].id) # "string"
             \/ typeof(body.resumes.array[i].text) # "string"
     \/ /\ body.threshold # Undefined
        /\ \/ typeof(body.threshold) # "number"
           \/ body.threshold.number < 0
           \/ body.threshold.number > 1000
     \/ body.resumeIds = Undefined /\ body.resumes = Undefined

\* C27: every score request with a malformed body is answered 400, never
\* 500, and the pipeline is not invoked for it.
C27_MalformedAnswered400 ==
  \A request \in ScoreRequests :
    (Answered(request) /\ Malformed(qReq[request].body))
      => /\ qReq[request].response.status = 400
         /\ ~qReq[request].invoked

ScoreSucceeded(request) ==
  Answered(request) /\ qReq[request].response.success

\* the step is the one in which the request is answered
AnsweredNow(request) == ~Answered(request) /\ qReq'[request].response # NotRun

====
